---- MODULE Spec2Model ----
(***************************************************************************)
(* Model of the three Core ML conversion scripts of A-iq:                  *)
(*   scripts/convert_siglip_to_coreml.py                                   *)
(*   scripts/model_conversion/convert_deepfake_detector.py                 *)
(*   scripts/model_conversion/convert_xceptionnet_deepfake.py              *)
(* A state is one working directory (disk) together with the position and  *)
(* the local variables of the script run that is in progress.  Every call  *)
(* into a third-party library (transformers, timm, torch, coremltools,     *)
(* urllib) is a step whose outcome, return or raise, is chosen by the      *)
(* environment.                                                            *)
(***************************************************************************)
EXTENDS Integers, Sequences, FiniteSets, TLC

VARIABLES
    runs,          \* number of script runs started in the working directory
    script,        \* the script being run
    importable,    \* the libraries `import` finds in the run's environment
    weight_urls,   \* download_pretrained_weights: the candidate URL list
    pc,            \* position of the run
    exitStatus,    \* process exit status, -1 while the process is running
    out,           \* lines printed to standard output, in order
    err,           \* lines written to standard error by the interpreter
    model,         \* the torch model object: architecture, classes, weights
    baseline,      \* the model as it was passed to download_pretrained_weights
    urlIdx,        \* download_pretrained_weights: index of the next URL
    attempts,      \* download_pretrained_weights: <<url index, outcome>> history
    tmpfiles,      \* temporary weight files this run created and not deleted
    traced,        \* trace_model: the traced module's test output
    mlmodel,       \* the in-memory ct.models.MLModel
    class_labels,  \* labels read from model.config.id2label
    disk,          \* working directory: package path -> package or NoFile
    trail,         \* the pipeline steps completed by this run, in order
    verified       \* outcome of the reload / predict calls of the verification

vars == <<runs, script, importable, weight_urls, pc, exitStatus, out, err,
          model, baseline, urlIdx, attempts, tmpfiles, traced, mlmodel,
          class_labels, disk, trail, verified>>

-----------------------------------------------------------------------------
(* Bounds of the model *)

\* number of script runs made one after the other in the working directory
MaxRuns == 3
\* longest candidate URL list given to download_pretrained_weights
MaxUrls == 3
\* largest number of labels a hub model's config declares
MaxLabels == 2

-----------------------------------------------------------------------------
(* The scripts and their hard-coded configuration *)

SIGLIP == "convert_siglip_to_coreml.py"
DEEPFAKE == "convert_deepfake_detector.py"
XCEPTION == "convert_xceptionnet_deepfake.py"

Scripts == {SIGLIP, DEEPFAKE, XCEPTION}

HubScripts == {SIGLIP, DEEPFAKE}

MODEL_ID(s) ==
    CASE s = SIGLIP -> "Ateeqq/ai-vs-human-image-detector"
      [] s = DEEPFAKE -> "prithivMLmods/deepfake-detector-model-v1"

OUTPUT_NAME(s) ==
    CASE s = SIGLIP -> "AIDetector"
      [] s = DEEPFAKE -> "DeepfakeDetector"
      [] s = XCEPTION -> "DeepfakeDetector"

INPUT_SIZE(s) ==
    CASE s = SIGLIP -> 224
      [] s = DEEPFAKE -> 512
      [] s = XCEPTION -> 299

\* output_path = f"{OUTPUT_NAME}.mlpackage", relative to the working directory
OutputPath(s) == OUTPUT_NAME(s) \o ".mlpackage"

Paths == {OutputPath(s) : s \in Scripts}

\* the name of the image input given to ct.ImageType and to predict
InputName(s) == IF s = SIGLIP THEN "image" ELSE "face_image"

\* the name of the output tensor given to ct.TensorType
OutputName(s) == IF s = SIGLIP THEN "probs" ELSE "probabilities"

\* the module-level import statements, in order (os, sys and pathlib belong
\* to the interpreter and are always found)
ModuleImports(s) ==
    IF s = XCEPTION
    THEN <<"coremltools", "numpy", "torch", "PIL">>
    ELSE <<"coremltools", "numpy", "torch", "PIL", "transformers">>

\* every library the script imports anywhere
ImportedLibs(s) ==
    {ModuleImports(s)[i] : i \in DOMAIN ModuleImports(s)}
        \cup (IF s = XCEPTION THEN {"timm", "torchvision"} ELSE {})

\* the "Requirements: pip install ..." line of the script's docstring
Requirements(s) ==
    IF s = XCEPTION
    THEN {"torch", "torchvision", "coremltools", "pillow", "timm"}
    ELSE {"torch", "transformers", "coremltools", "pillow"}

\* the module a requirement is imported as
ImportName(req) == IF req = "pillow" THEN "PIL" ELSE req

\* the candidate URL list of download_pretrained_weights.  The source lists
\* one URL and leaves room for more ("Alternative sources could be added
\* here"); the loop is modelled over lists of 1 .. MaxUrls entries.
WeightUrl(i) ==
    IF i = 1
    THEN "https://github.com/kaushikram31/deepfake-detection-XceptionNet/raw/main/models/xception_ff.pth"
    ELSE "alternative source " \o ToString(i)

WeightUrlLists == {[i \in 1..n |-> WeightUrl(i)] : n \in 1..MaxUrls}

\* weight_urls as the source has it
SourceWeightUrls == <<WeightUrl(1)>>

-----------------------------------------------------------------------------
(* Conversions *)

Digit(d) ==
    CASE d = 0 -> "0" [] d = 1 -> "1" [] d = 2 -> "2" [] d = 3 -> "3"
      [] d = 4 -> "4" [] d = 5 -> "5" [] d = 6 -> "6" [] d = 7 -> "7"
      [] d = 8 -> "8" [] d = 9 -> "9"

\* Python's str() of a non-negative int
RECURSIVE str(_)
str(n) == IF n < 10 THEN Digit(n) ELSE str(n \div 10) \o Digit(n % 10)

\* Python's ",".join(labels)
RECURSIVE join(_)
join(labels) ==
    IF Len(labels) = 0 THEN ""
    ELSE IF Len(labels) = 1 THEN labels[1]
    ELSE labels[1] \o "," \o join(Tail(labels))

-----------------------------------------------------------------------------
(* Values *)

NoFile == [kind |-> "absent"]
NoModel == [kind |-> "none"]
NoTrace == [kind |-> "none"]
NoMLModel == [kind |-> "none"]

\* an uncaught exception: the interpreter prints the traceback to standard
\* error and the process exits with status 1
Uncaught(exc) ==
    /\ err' = Append(err, exc)
    /\ exitStatus' = 1
    /\ pc' = "done"

Stdout(lines) == out' = out \o lines

-----------------------------------------------------------------------------
Init ==
    /\ runs = 0
    /\ script = SIGLIP
    /\ importable = {}
    /\ weight_urls = <<>>
    /\ pc = "idle"
    /\ exitStatus = -1
    /\ out = <<>>
    /\ err = <<>>
    /\ model = NoModel
    /\ baseline = NoModel
    /\ urlIdx = 1
    /\ attempts = <<>>
    /\ tmpfiles = {}
    /\ traced = NoTrace
    /\ mlmodel = NoMLModel
    /\ class_labels = <<>>
    /\ disk = [p \in Paths |-> NoFile]
    /\ trail = <<>>
    /\ verified = "not run"

\* the environments a run can start in: timm itself imports torch and
\* torchvision, so it is importable only where they are
Environments(s) ==
    {e \in SUBSET ImportedLibs(s) :
        "timm" \in e => {"torch", "torchvision"} \subseteq e}

\* `python <script>` in the working directory: a fresh interpreter; only the
\* working directory is carried over from earlier runs
Launch(lists) ==
    /\ runs' = runs + 1
    /\ \E s \in Scripts :
        /\ script' = s
        /\ importable' \in Environments(s)
        /\ weight_urls' \in (IF s = XCEPTION THEN lists ELSE {<<>>})
    /\ pc' = "imports"
    /\ exitStatus' = -1
    /\ out' = <<>>
    /\ err' = <<>>
    /\ model' = NoModel
    /\ baseline' = NoModel
    /\ urlIdx' = 1
    /\ attempts' = <<>>
    /\ tmpfiles' = {}
    /\ traced' = NoTrace
    /\ mlmodel' = NoMLModel
    /\ class_labels' = <<>>
    /\ trail' = <<>>
    /\ verified' = "not run"
    /\ UNCHANGED disk

\* one run in an empty working directory, over every candidate URL list
StartRun ==
    /\ pc = "idle"
    /\ Launch(WeightUrlLists)

\* the first of several runs in one working directory, with the URL list of
\* the source
FirstRun ==
    /\ pc = "idle"
    /\ Launch({SourceWeightUrls})

\* a further run in the same working directory, after the previous process
\* has exited
RepeatRun ==
    /\ pc = "done"
    /\ runs < MaxRuns
    /\ Launch({SourceWeightUrls})

\* variant: the imports are not resolved when the module is loaded
FirstMissing_None(s, env) == 0

\* the index of the first module-level import that is not found, 0 if none
FirstMissing(s, env) ==
    LET missing == {i \in DOMAIN ModuleImports(s) : ModuleImports(s)[i] \notin env}
    IN  IF missing = {} THEN 0
        ELSE CHOOSE i \in missing : \A j \in missing : i <= j

\* the import statements at the top of the module, run before main()
ModuleLevelImports ==
    /\ pc = "imports"
    /\ LET i == FirstMissing(script, importable)
       IN  IF i = 0
           THEN /\ pc' = "main"
                /\ UNCHANGED <<exitStatus, err>>
           ELSE Uncaught("ModuleNotFoundError: No module named '"
                            \o ModuleImports(script)[i] \o "'")
    /\ UNCHANGED <<runs, script, importable, weight_urls, out, model, baseline,
                   urlIdx, attempts, tmpfiles, traced, mlmodel, class_labels,
                   disk, trail, verified>>

Title(s) ==
    CASE s = SIGLIP -> "SigLIP to Core ML Converter"
      [] s = DEEPFAKE -> "Deepfake Detector (SigLIP) to Core ML Converter"
      [] s = XCEPTION -> "XceptionNet Deepfake Detector to Core ML Converter"

PipInstallLine(s) ==
    IF s = XCEPTION
    THEN "Run: pip install coremltools torch torchvision timm pillow"
    ELSE "Run: pip install coremltools torch transformers pillow"

\* main(): the banner and the "Check dependencies" block.  The import inside
\* main finds coremltools exactly when the module-level import found it.
CheckDependencies ==
    /\ pc = "main"
    /\ IF "coremltools" \in importable
       THEN /\ Stdout(<<Title(script), "coremltools version">>)
            /\ pc' = IF script = XCEPTION THEN "create" ELSE "download"
            /\ UNCHANGED exitStatus
       ELSE /\ Stdout(<<Title(script), "ERROR: coremltools not installed",
                       PipInstallLine(script)>>)
            /\ exitStatus' = 1
            /\ pc' = "done"
    /\ UNCHANGED <<runs, script, importable, weight_urls, err, model, baseline,
                   urlIdx, attempts, tmpfiles, traced, mlmodel, class_labels,
                   disk, trail, verified>>

-----------------------------------------------------------------------------
(* main: the order of the calls *)

\* variant: main saves the package before it finalizes the model
StepAfter_SaveFirst(p) ==
    CASE p = "download" -> "wrap"
      [] p = "create" -> "weights"
      [] p = "weights" -> "wrap"
      [] p = "wrap" -> "trace"
      [] p = "trace" -> "convert"
      [] p = "convert" -> "save"
      [] p = "save" -> "finalize"
      [] p = "finalize" -> "report"
      [] p = "report" -> "verify"
      [] p = "verify" -> "done"

\* the position main goes to when the call at position p has returned
StepAfter(p) ==
    CASE p = "download" -> "wrap"
      [] p = "create" -> "weights"
      [] p = "weights" -> "wrap"
      [] p = "wrap" -> "trace"
      [] p = "trace" -> "convert"
      [] p = "convert" -> "finalize"
      [] p = "finalize" -> "save"
      [] p = "save" -> "report"
      [] p = "report" -> "verify"
      [] p = "verify" -> "done"

-----------------------------------------------------------------------------
(* The two hub scripts: download_model *)

\* model.config.id2label of a hub model that declares n labels
Id2Label(n) == [i \in 1..n |-> "LABEL_" \o str(i - 1)]

HubModel(n) ==
    [kind |-> "model", arch |-> "siglip", classes |-> n, weights |-> "hub"]

\* download_model(): the two from_pretrained calls, then model.train(False).
\* outcome 0: a from_pretrained call raises; outcome n >= 2: the hub model
\* declares n labels
download_model ==
    /\ pc = "download"
    /\ script \in HubScripts
    /\ \E outcome \in 0..MaxLabels :
        IF outcome = 0
        THEN /\ Stdout(<<"Downloading model: " \o MODEL_ID(script)>>)
             /\ Uncaught("OSError: from_pretrained")
             /\ UNCHANGED <<model, class_labels, trail>>
        ELSE /\ outcome >= 2
             /\ Stdout(<<"Downloading model: " \o MODEL_ID(script),
                         "Model loaded: " \o str(outcome) \o " classes",
                         "Labels: " \o join(Id2Label(outcome))>>)
             /\ model' = HubModel(outcome)
             /\ class_labels' = <<>>
             /\ trail' = Append(trail, "download")
             /\ pc' = StepAfter("download")
             /\ UNCHANGED <<exitStatus, err>>
    /\ UNCHANGED <<runs, script, importable, weight_urls, baseline, urlIdx,
                   attempts, tmpfiles, traced, mlmodel, disk, verified>>

-----------------------------------------------------------------------------
(* The XceptionNet script: create_xceptionnet_model *)

TimmModel ==
    [kind |-> "model", arch |-> "xception", classes |-> 2, weights |-> "imagenet"]

\* variant: the fallback keeps InceptionV3's 1000-class ImageNet head
TorchvisionModel_ImageNetHead ==
    [kind |-> "model", arch |-> "inception_v3", classes |-> 1000, weights |-> "imagenet"]

\* inception_v3 with model.fc replaced by nn.Linear(in_features, 2)
TorchvisionModel ==
    [kind |-> "model", arch |-> "inception_v3", classes |-> 2, weights |-> "imagenet"]

\* create_xceptionnet_model(): timm's xception, or torchvision's InceptionV3
\* when `import timm` raises ImportError
create_xceptionnet_model ==
    /\ pc = "create"
    /\ script = XCEPTION
    /\ \E ok \in BOOLEAN :
        IF "timm" \in importable
        THEN IF ok
             THEN /\ Stdout(<<"Creating XceptionNet model...",
                              "Model created with parameters">>)
                  /\ model' = TimmModel
                  /\ pc' = StepAfter("create")
                  /\ UNCHANGED <<exitStatus, err>>
             ELSE /\ Stdout(<<"Creating XceptionNet model...">>)
                  /\ Uncaught("RuntimeError: timm.create_model")
                  /\ UNCHANGED model
        ELSE IF "torchvision" \notin importable
             THEN /\ ok
                  /\ Stdout(<<"Creating XceptionNet model...",
                              "timm not available, using torchvision Inception as fallback">>)
                  /\ Uncaught("ModuleNotFoundError: No module named 'torchvision'")
                  /\ UNCHANGED model
             ELSE IF ok
                  THEN /\ Stdout(<<"Creating XceptionNet model...",
                                   "timm not available, using torchvision Inception as fallback">>)
                       /\ model' = TorchvisionModel
                       /\ pc' = StepAfter("create")
                       /\ UNCHANGED <<exitStatus, err>>
                  ELSE /\ Stdout(<<"Creating XceptionNet model...",
                                   "timm not available, using torchvision Inception as fallback">>)
                       /\ Uncaught("RuntimeError: inception_v3")
                       /\ UNCHANGED model
    /\ UNCHANGED <<runs, script, importable, weight_urls, baseline, urlIdx,
                   attempts, tmpfiles, traced, mlmodel, class_labels, disk,
                   trail, verified>>

-----------------------------------------------------------------------------
(* The XceptionNet script: download_pretrained_weights *)

\* download_pretrained_weights(model), up to the loop
download_pretrained_weights ==
    /\ pc = "weights"
    /\ Stdout(<<"Setting up pretrained weights...">>)
    /\ baseline' = model
    /\ urlIdx' = 1
    /\ pc' = "weights_loop"
    /\ UNCHANGED <<runs, script, importable, weight_urls, exitStatus, err,
                   model, attempts, tmpfiles, traced, mlmodel, class_labels,
                   disk, trail, verified>>

\* what one pass of the loop body can do:
\*   tmpfile_error       NamedTemporaryFile raises, no file is created
\*   download_error      urlretrieve raises
\*   unreadable          torch.load, or an `in` test on what it returned, raises
\*   load_error          load_state_dict raises having copied no tensor
\*   load_error_partial  load_state_dict raises having copied the tensors
\*                       whose shapes match (it reports size mismatches only
\*                       after the copy pass)
\*   loaded              load_state_dict returns
AttemptOutcomes ==
    {"tmpfile_error", "download_error", "unreadable",
     "load_error", "load_error_partial", "loaded"}

\* model.load_state_dict(state_dict, strict=False) works on the model in place
ModelAfterAttempt(m, outcome) ==
    CASE outcome = "loaded" -> [m EXCEPT !.weights = "deepfake"]
      [] outcome = "load_error_partial" -> [m EXCEPT !.weights = "partial"]
      [] OTHER -> m

\* NamedTemporaryFile(delete=False) leaves the file to the caller, and only
\* the success path reaches os.unlink(tmp.name)
TmpFilesAfterAttempt(files, i, outcome) ==
    IF outcome \in {"tmpfile_error", "loaded"} THEN files ELSE files \cup {i}

\* variant: the loop steps over every other URL
NextUrlIdx_Skip(i) == i + 2

\* the index the loop goes on with after a failed pass (`continue`)
NextUrlIdx(i) == i + 1

\* variant: `except OSError`, which catches the download failures only
AttemptCaught_OSError(outcome) == outcome \in {"tmpfile_error", "download_error"}

\* `except Exception` catches whatever a pass of the loop body raises
AttemptCaught(outcome) == TRUE

\* one pass of `for url in weight_urls`: try ... except Exception ... continue
TryWeightUrl ==
    /\ pc = "weights_loop"
    /\ urlIdx <= Len(weight_urls)
    /\ \E outcome \in AttemptOutcomes :
        /\ attempts' = Append(attempts, [url |-> urlIdx, outcome |-> outcome])
        /\ model' = ModelAfterAttempt(model, outcome)
        /\ tmpfiles' = TmpFilesAfterAttempt(tmpfiles, urlIdx, outcome)
        /\ IF outcome = "loaded"
           THEN /\ Stdout(<<"Trying to download from: " \o weight_urls[urlIdx],
                            "Successfully loaded pretrained deepfake detection weights!">>)
                /\ trail' = Append(trail, "download")
                /\ pc' = StepAfter("weights")
                /\ UNCHANGED <<urlIdx, exitStatus, err>>
           ELSE IF AttemptCaught(outcome)
           THEN /\ Stdout(<<"Trying to download from: " \o weight_urls[urlIdx],
                            "Could not load from " \o weight_urls[urlIdx]>>)
                /\ urlIdx' = NextUrlIdx(urlIdx)
                /\ UNCHANGED <<pc, trail, exitStatus, err>>
           ELSE /\ Stdout(<<"Trying to download from: " \o weight_urls[urlIdx]>>)
                /\ Uncaught("Exception: download_pretrained_weights")
                /\ UNCHANGED <<urlIdx, trail>>
    /\ UNCHANGED <<runs, script, importable, weight_urls, baseline, traced,
                   mlmodel, class_labels, disk, verified>>

WARNING == "WARNING: Could not download pretrained deepfake weights."

\* the loop is exhausted: the warning, then `return model`
WeightsFallThrough ==
    /\ pc = "weights_loop"
    /\ urlIdx > Len(weight_urls)
    /\ Stdout(<<WARNING,
                "Using ImageNet pretrained XceptionNet as baseline.",
                "Proceeding with ImageNet pretrained model...">>)
    /\ trail' = Append(trail, "download")
    /\ pc' = StepAfter("weights")
    /\ UNCHANGED <<runs, script, importable, weight_urls, exitStatus, err,
                   model, baseline, urlIdx, attempts, tmpfiles, traced,
                   mlmodel, class_labels, disk, verified>>

-----------------------------------------------------------------------------
(* trace_model *)

\* the side of the tensor the hub's image processor makes of the dummy image
ProcessorSize(s) == INPUT_SIZE(s)

\* dummy_input.shape (XceptionNet) or pixel_values.shape (hub scripts)
InputShape(s) ==
    IF s = XCEPTION
    THEN <<1, 3, INPUT_SIZE(s), INPUT_SIZE(s)>>
    ELSE <<1, 3, ProcessorSize(s), ProcessorSize(s)>>

\* trace_model, up to the wrapper: the sample input and the softmax wrapper
\* (SigLIPWrapper, DeepfakeWrapper, XceptionWrapper).  Only the hub scripts
\* call a library that can raise here (the image processor).
wrap_model ==
    /\ pc = "wrap"
    /\ \E ok \in BOOLEAN :
        IF ok
        THEN /\ Stdout(<<"Tracing model...", "Input shape">>)
             /\ traced' = [kind |-> "wrapper", input_shape |-> InputShape(script)]
             /\ trail' = Append(trail, "wrap")
             /\ pc' = StepAfter("wrap")
             /\ UNCHANGED <<exitStatus, err>>
        ELSE /\ script \in HubScripts
             /\ Stdout(<<"Tracing model...">>)
             /\ Uncaught("ValueError: processor")
             /\ UNCHANGED <<traced, trail>>
    /\ UNCHANGED <<runs, script, importable, weight_urls, model, baseline,
                   urlIdx, attempts, tmpfiles, mlmodel, class_labels, disk,
                   verified>>

\* test_output.sum().item() in units of 0.00001, or NaN: softmax over finite
\* logits sums to 1 up to float rounding, over NaN logits it is NaN
NaN == "nan"
SoftmaxSums == {99999, 100000}

Pad4(n) ==
    IF n < 10 THEN "000" \o str(n)
    ELSE IF n < 100 THEN "00" \o str(n)
    ELSE IF n < 1000 THEN "0" \o str(n)
    ELSE str(n)

\* f"{x:.4f}" of a float given in units of 0.00001
Format4f(x) ==
    LET q == (x + 5) \div 10
    IN  str(q \div 10000) \o "." \o Pad4(q % 10000)

\* torch.Size printed
RECURSIVE ShapeStr(_)
ShapeStr(shape) ==
    IF Len(shape) = 0 THEN ""
    ELSE IF Len(shape) = 1 THEN str(shape[1])
    ELSE str(shape[1]) \o ", " \o ShapeStr(Tail(shape))

\* the lines trace_model prints about the test output
TraceReport(shape, sumText) ==
    <<"Output shape: torch.Size([" \o ShapeStr(shape) \o "])",
      "Output sum (should be ~1.0): " \o sumText>>

\* trace_model, from torch.jit.trace on: the trace, then one forward pass of
\* the traced module whose shape and sum are printed
trace_model ==
    /\ pc = "trace"
    /\ \E outcome \in {"raise", "finite", "nan"} :
        IF outcome = "raise"
        THEN /\ Uncaught("RuntimeError: torch.jit.trace")
             /\ UNCHANGED <<out, traced, trail>>
        ELSE /\ \E total \in (IF outcome = "nan" THEN {-1} ELSE SoftmaxSums) :
                /\ traced' = [kind |-> "traced",
                              input_shape |-> traced.input_shape,
                              output_shape |-> <<1, model.classes>>,
                              sum |-> IF outcome = "nan" THEN NaN
                                      ELSE Format4f(total)]
                /\ Stdout(TraceReport(<<1, model.classes>>,
                                      IF outcome = "nan" THEN NaN
                                      ELSE Format4f(total)))
             /\ trail' = Append(trail, "trace")
             /\ pc' = StepAfter("trace")
             /\ UNCHANGED <<exitStatus, err>>
    /\ UNCHANGED <<runs, script, importable, weight_urls, model, baseline,
                   urlIdx, attempts, tmpfiles, mlmodel, class_labels, disk,
                   verified>>

-----------------------------------------------------------------------------
(* convert_to_coreml / create_classifier_model *)

\* ct.ImageType(name, shape, scale, bias): the literals of each script
ImageInput(s, shape) ==
    [name |-> InputName(s),
     shape |-> shape,
     scale |-> IF s = XCEPTION THEN "1.0 / (255.0 * 0.226)" ELSE "1.0 / 127.5",
     bias |-> IF s = XCEPTION
              THEN <<"-0.485/0.229", "-0.456/0.224", "-0.406/0.225">>
              ELSE <<"-1.0", "-1.0", "-1.0">>]

\* what ct.convert returns: a model with no metadata set
Converted(s, m, t) ==
    [kind |-> "mlmodel",
     network |-> m,
     input |-> ImageInput(s, t.input_shape),
     output |-> [name |-> OutputName(s), shape |-> t.output_shape],
     author |-> "",
     license |-> "",
     short_description |-> "",
     version |-> "",
     user_defined_metadata |-> <<>>]

\* convert_to_coreml (create_classifier_model in the SigLIP script): the hub
\* scripts read the class labels off model.config first
convert_to_coreml ==
    /\ pc = "convert"
    /\ \E ok \in BOOLEAN :
        /\ IF script \in HubScripts
           THEN /\ class_labels' = Id2Label(model.classes)
                /\ Stdout(<<"Converting to Core ML...",
                            "Class labels: " \o join(Id2Label(model.classes))>>)
           ELSE /\ UNCHANGED class_labels
                /\ Stdout(<<"Converting to Core ML...">>)
        /\ IF ok
           THEN /\ mlmodel' = Converted(script, model, traced)
                /\ trail' = Append(trail, "convert")
                /\ pc' = StepAfter("convert")
                /\ UNCHANGED <<exitStatus, err>>
           ELSE /\ Uncaught("RuntimeError: ct.convert")
                /\ UNCHANGED <<mlmodel, trail>>
    /\ UNCHANGED <<runs, script, importable, weight_urls, model, baseline,
                   urlIdx, attempts, tmpfiles, traced, disk, verified>>

-----------------------------------------------------------------------------
(* finalize_model *)

Author(s) == "A-IQ App"

License(s) == IF s = XCEPTION THEN "Research use" ELSE "Apache 2.0"

Version(s) == IF s = SIGLIP THEN "2.0.0" ELSE "1.0.0"

ShortDescription(s) ==
    CASE s = SIGLIP -> "AI-generated image detector (SigLIP architecture)."
      [] s = DEEPFAKE -> "Deepfake/face-swap detector (SigLIP architecture)."
      [] s = XCEPTION -> "Deepfake/face-swap detector (XceptionNet architecture)."

\* the mlmodel.user_defined_metadata[...] assignments, in order
UserDefinedMetadata(s, labels) ==
    IF s = XCEPTION
    THEN << <<"class_labels", "Real,Fake">>,
            <<"training_data", "FaceForensics++">>,
            <<"input_size", str(INPUT_SIZE(s))>>,
            <<"output_format", "[real_probability, fake_probability]">> >>
    ELSE << <<"class_labels", join(labels)>>,
            <<"source_model", MODEL_ID(s)>>,
            <<"input_size", str(INPUT_SIZE(s))>> >>

\* variant: finalize_model leaves the version unset
Finalized_NoVersion(ml, s, labels) ==
    [ml EXCEPT !.author = Author(s),
               !.license = License(s),
               !.short_description = ShortDescription(s),
               !.user_defined_metadata = UserDefinedMetadata(s, labels)]

\* finalize_model(mlmodel, class_labels): attach the metadata
Finalized(ml, s, labels) ==
    [ml EXCEPT !.author = Author(s),
               !.license = License(s),
               !.short_description = ShortDescription(s),
               !.version = Version(s),
               !.user_defined_metadata = UserDefinedMetadata(s, labels)]

finalize_model ==
    /\ pc = "finalize"
    /\ Stdout(<<"Finalizing model...">>)
    /\ mlmodel' = Finalized(mlmodel, script, class_labels)
    /\ trail' = Append(trail, "annotate")
    /\ pc' = StepAfter("finalize")
    /\ UNCHANGED <<runs, script, importable, weight_urls, exitStatus, err,
                   model, baseline, urlIdx, attempts, tmpfiles, traced,
                   class_labels, disk, verified>>

-----------------------------------------------------------------------------
(* main: save, report, verify *)

\* the package mlmodel.save writes: the model as it is at the call
Package(ml, s) ==
    [kind |-> "package", written_by |-> s, mlmodel |-> ml]

\* variant: every script saves to the path of the SigLIP script
SavePath_Copied(s) == "AIDetector.mlpackage"

\* the path mlmodel.save is given
SavePath(s) == OutputPath(s)

\* mlmodel.save(output_path): the package replaces whatever is at the path;
\* a save that raises is taken to raise before it touches the path
save_model ==
    /\ pc = "save"
    /\ Stdout(<<"Saving model to: " \o OutputPath(script)>>)
    /\ \E ok \in BOOLEAN :
        IF ok
        THEN /\ disk' = [disk EXCEPT ![SavePath(script)] = Package(mlmodel, script)]
             /\ trail' = Append(trail, "save")
             /\ pc' = StepAfter("save")
             /\ UNCHANGED <<exitStatus, err>>
        ELSE /\ Uncaught("OSError: mlmodel.save")
             /\ UNCHANGED <<disk, trail>>
    /\ UNCHANGED <<runs, script, importable, weight_urls, model, baseline,
                   urlIdx, attempts, tmpfiles, traced, mlmodel, class_labels,
                   verified>>

SUCCESS == "SUCCESS!"

\* the lines main prints after the save: the banner, the hints and, in the
\* two deepfake scripts, the size of the package when the path exists
SuccessReport(s, d) ==
    <<SUCCESS, "Model saved to: " \o OutputPath(s)>>
        \o (IF s \in HubScripts THEN <<"Class labels">> ELSE <<>>)
        \o <<"To compile for deployment:",
             "  xcrun coremlcompiler compile " \o OutputPath(s) \o " ./">>
        \o (IF s # SIGLIP /\ d[OutputPath(s)] # NoFile
            THEN <<"Model size">> ELSE <<>>)

report_success ==
    /\ pc = "report"
    /\ Stdout(SuccessReport(script, disk))
    /\ pc' = StepAfter("report")
    /\ UNCHANGED <<runs, script, importable, weight_urls, exitStatus, err,
                   model, baseline, urlIdx, attempts, tmpfiles, traced,
                   mlmodel, class_labels, disk, trail, verified>>

PASSED == "Model verification PASSED!"
VerificationWarning == "Verification warning"

\* numpy formats an array with a format spec only when it has no dimension:
\* f"{a:.4f}" raises TypeError for any other array
CanFormat(shape) == shape = <<>>

\* the lines the try block of the verification prints once predict returned,
\* and whether it then reaches its end.  The XceptionNet script prints
\* probs[0] and probs[1] with :.4f, probs being the output tensor.
AfterPredict(s, shape) ==
    IF s = XCEPTION /\ ~CanFormat(Tail(shape))
    THEN [lines |-> <<"Test prediction">>, raised |-> TRUE]
    ELSE IF s = XCEPTION
    THEN [lines |-> <<"Test prediction", "  Real probability",
                      "  Fake probability", PASSED>>, raised |-> FALSE]
    ELSE [lines |-> <<"Test prediction", PASSED>>, raised |-> FALSE]

\* except Exception as e: the two warning lines
WarningLines == <<VerificationWarning, "Model may still work - compile and test in Xcode.">>

\* variant: a failed verification removes the package
DiskAfterVerify_Cleanup(d, s, outcome) ==
    IF outcome = "predicted" THEN d ELSE [d EXCEPT ![OutputPath(s)] = NoFile]

\* ct.models.MLModel(path) and predict read the package and write nothing
\* to it
DiskAfterVerify(d, s, outcome) == d

\* variant: the except block of the verification ends with sys.exit(1)
ExitAfterVerify_Strict(outcome) == IF outcome = "predicted" THEN 0 ELSE 1

\* the exit status of a run whose verification block has ended: main returns
ExitAfterVerify(outcome) == 0

\* what ct.models.MLModel(output_path) and loaded.predict(...) can do: the
\* load raises, the prediction raises, or both return; a path that holds no
\* package cannot be loaded
VerifyOutcomes(d, s) ==
    IF d[OutputPath(s)] = NoFile
    THEN {"load_error"}
    ELSE {"load_error", "predict_error", "predicted"}

\* the verification block of main, and the end of the process
verify_model ==
    /\ pc = "verify"
    /\ \E outcome \in VerifyOutcomes(disk, script) :
        /\ verified' = outcome
        /\ IF outcome = "predicted"
           THEN LET r == AfterPredict(script, disk[OutputPath(script)].mlmodel.output.shape)
                IN  Stdout(<<"Verifying model...">> \o r.lines
                            \o (IF r.raised THEN WarningLines ELSE <<>>))
           ELSE Stdout(<<"Verifying model...">> \o WarningLines)
        /\ exitStatus' = ExitAfterVerify(outcome)
        /\ disk' = DiskAfterVerify(disk, script, outcome)
    /\ trail' = Append(trail, "verify")
    /\ pc' = StepAfter("verify")
    /\ UNCHANGED <<runs, script, importable, weight_urls, err, model, baseline,
                   urlIdx, attempts, tmpfiles, traced, mlmodel, class_labels>>

Steps ==
    \/ ModuleLevelImports
    \/ CheckDependencies
    \/ download_model
    \/ create_xceptionnet_model
    \/ download_pretrained_weights
    \/ TryWeightUrl
    \/ WeightsFallThrough
    \/ wrap_model
    \/ trace_model
    \/ convert_to_coreml
    \/ finalize_model
    \/ save_model
    \/ report_success
    \/ verify_model

\* one run of one script in an empty working directory
Next == StartRun \/ Steps

Spec == Init /\ [][Next]_vars

\* the run goes on while the process has not exited: the scripts are
\* single-threaded and run to completion
FairSpec == Spec /\ WF_vars(Steps)

\* up to MaxRuns runs, one after the other, in one working directory
NextInDir == FirstRun \/ RepeatRun \/ Steps

DirSpec == Init /\ [][NextInDir]_vars
-----------------------------------------------------------------------------
(* Vocabulary of the properties *)

Printed(line) == \E i \in DOMAIN out : out[i] = line

InTrail(step) == \E i \in DOMAIN trail : trail[i] = step

IsPrefix(a, b) == Len(a) <= Len(b) /\ \A i \in DOMAIN a : a[i] = b[i]

EmptyDir == [p \in Paths |-> NoFile]

\* the traceback line of an import that finds no module
ImportErrorLine(lib) == "ModuleNotFoundError: No module named '" \o lib \o "'"

\* the modules of the Requirements line that the environment lacks
MissingRequired == {ImportName(r) : r \in Requirements(script)} \ importable

\* the module-level imports that the environment lacks
MissingModuleLevel ==
    {ModuleImports(script)[i] : i \in DOMAIN ModuleImports(script)} \ importable

NamesMissing(lib) ==
    \/ \E i \in DOMAIN err : err[i] = ImportErrorLine(lib)
    \/ Printed("ERROR: " \o lib \o " not installed")

\* no model was downloaded or created, converted or saved
NothingProduced ==
    /\ model = NoModel
    /\ mlmodel = NoMLModel
    /\ disk = EmptyDir
    /\ trail = <<>>

\* every URL of the list was tried and none loaded
AllFailed ==
    /\ Len(attempts) = Len(weight_urls)
    /\ \A i \in DOMAIN attempts : attempts[i].outcome # "loaded"

InWeights == pc \in {"weights", "weights_loop"}

PipelineOrder ==
    <<"download", "wrap", "trace", "convert", "annotate", "save", "verify">>

\* the uncaught exceptions of the library calls of the pipeline
PipelineErrors ==
    {"OSError: from_pretrained", "RuntimeError: timm.create_model",
     "ValueError: processor", "RuntimeError: torch.jit.trace",
     "RuntimeError: ct.convert", "OSError: mlmodel.save"}

-----------------------------------------------------------------------------
(* C1 *)

-----------------------------------------------------------------------------
(* C2 *)

RequiredPresent == MissingRequired = {} /\ MissingModuleLevel = {}

\* C2, as claimed: every run in which no required library is missing ends
\* with exit status zero after printing progress, whatever the outcome of the
\* download, tracing, conversion, save and verification steps.
C2_AsClaimed ==
    (pc = "done" /\ RequiredPresent) => (exitStatus = 0 /\ out # <<>>)

\* C2, amended: a run in which no required library is missing ends with exit
\* status zero, having printed its progress up to the SUCCESS banner and run
\* the verification, whatever the outcome of the weight-download attempts and
\* of the verification, provided none of the calls outside a try block
\* (from_pretrained, timm.create_model, the image processor, torch.jit.trace,
\* ct.convert, mlmodel.save) raises; when one of them raises, the run ends
\* there with the uncaught exception and exit status 1.
C2_ExitStatus ==
    (pc = "done" /\ RequiredPresent) =>
        IF err = <<>>
        THEN /\ exitStatus = 0
             /\ Printed(SUCCESS)
             /\ verified # "not run"
             /\ trail = PipelineOrder
        ELSE /\ exitStatus = 1
             /\ Len(err) = 1
             /\ err[1] \in PipelineErrors
             /\ verified = "not run"

C2_Witness ==
    /\ script = XCEPTION
    /\ RequiredPresent
    /\ pc = "done"
    /\ exitStatus = 0
    /\ AllFailed
    /\ verified = "predict_error"

-----------------------------------------------------------------------------
(* C3 *)

-----------------------------------------------------------------------------
(* C4 *)

\* C4: in each script, when the reload or the prediction of the verification
\* raises, the warning is printed, the SUCCESS banner has been printed, the
\* process ends normally (exit status 0, no uncaught exception), and the
\* package on disk is the one that was saved.
C4_VerifyFailureNotFatal ==
    (pc = "done" /\ verified \in {"load_error", "predict_error"}) =>
        /\ Printed(VerificationWarning)
        /\ Printed(SUCCESS)
        /\ exitStatus = 0
        /\ err = <<>>
        /\ disk[OutputPath(script)] = Package(mlmodel, script)

C4_Witness ==
    /\ script = SIGLIP
    /\ pc = "done"
    /\ verified = "load_error"
    /\ disk[OutputPath(SIGLIP)] # NoFile
    /\ Printed(VerificationWarning)

-----------------------------------------------------------------------------
(* C5 *)

HasAllMetadata(ml) ==
    /\ ml.author # ""
    /\ ml.license # ""
    /\ ml.version # ""
    /\ ml.short_description # ""
    /\ \E i \in DOMAIN ml.user_defined_metadata :
        ml.user_defined_metadata[i][1] = "input_size"

\* C5: in each script the steps of a run occur in the order download, wrap,
\* trace, convert, annotate, save, verify; the package is saved only after
\* the metadata has been attached, the verification runs only after the
\* save, and the SUCCESS banner is printed only after the save.
C5_StepOrder ==
    /\ IsPrefix(trail, PipelineOrder)
    /\ disk[OutputPath(script)] # NoFile =>
        /\ InTrail("annotate")
        /\ InTrail("save")
        /\ HasAllMetadata(disk[OutputPath(script)].mlmodel)
    /\ verified # "not run" =>
        /\ InTrail("save")
        /\ disk[OutputPath(script)] # NoFile
    /\ Printed(SUCCESS) =>
        /\ InTrail("save")
        /\ disk[OutputPath(script)] # NoFile

C5_Witness ==
    /\ script = DEEPFAKE
    /\ pc = "done"
    /\ trail = PipelineOrder
    /\ Printed(SUCCESS)
    /\ verified = "predicted"
-----------------------------------------------------------------------------
(* C6 *)

HasKey(md, k) == \E i \in DOMAIN md : md[i][1] = k

\* the value a key holds after the assignments of md, in order
Get(md, k) ==
    LET at == {i \in DOMAIN md : md[i][1] = k}
    IN  md[CHOOSE i \in at : \A j \in at : j <= i][2]

\* the package names the model it was converted from: under the key
\* source_model, or by holding the network's name as a metadata value
EmbedsModelIdentifier(ml) ==
    \/ HasKey(ml.user_defined_metadata, "source_model")
    \/ \E i \in DOMAIN ml.user_defined_metadata :
        ml.user_defined_metadata[i][2] = ml.network.arch

EmbedsSizeAndStrings(ml, s) ==
    /\ HasKey(ml.user_defined_metadata, "input_size")
    /\ Get(ml.user_defined_metadata, "input_size") =
        (CASE s = SIGLIP -> "224" [] s = DEEPFAKE -> "512" [] s = XCEPTION -> "299")
    /\ ml.author = "A-IQ App"
    /\ ml.license = (IF s = XCEPTION THEN "Research use" ELSE "Apache 2.0")
    /\ ml.version = (IF s = SIGLIP THEN "2.0.0" ELSE "1.0.0")

\* C6, as claimed: for each script, the package saved to disk embeds the
\* script's model identifier, its input resolution and its author, license
\* and version strings.
C6_AsClaimed ==
    \A p \in Paths :
        disk[p] # NoFile =>
            /\ EmbedsModelIdentifier(disk[p].mlmodel)
            /\ EmbedsSizeAndStrings(disk[p].mlmodel, disk[p].written_by)

\* C6, amended: for each script, the package saved to disk embeds the input
\* resolution (the decimal text of the script's INPUT_SIZE, under input_size)
\* and the script's author, license and version strings; the two hub scripts
\* also embed their MODEL_ID under source_model, while the XceptionNet script
\* has no model identifier constant and embeds none.
C6_EmbeddedConfiguration ==
    \A p \in Paths :
        disk[p] # NoFile =>
            LET s == disk[p].written_by
                ml == disk[p].mlmodel
            IN  /\ EmbedsSizeAndStrings(ml, s)
                /\ s = SIGLIP =>
                    Get(ml.user_defined_metadata, "source_model")
                        = "Ateeqq/ai-vs-human-image-detector"
                /\ s = DEEPFAKE =>
                    Get(ml.user_defined_metadata, "source_model")
                        = "prithivMLmods/deepfake-detector-model-v1"
                /\ s = XCEPTION =>
                    /\ ~EmbedsModelIdentifier(ml)
                    /\ ml.input.shape = <<1, 3, 299, 299>>

C6_Witness ==
    /\ disk["DeepfakeDetector.mlpackage"] # NoFile
    /\ disk["DeepfakeDetector.mlpackage"].written_by = XCEPTION
    /\ pc = "report"

-----------------------------------------------------------------------------
(* C7 *)

\* C7, as claimed: in each script the smoke tests report on the traced
\* output (its shape, one row of as many probabilities as the model has
\* classes, and its sum) and on the saved package: the verification passes
\* exactly when the package is reloaded and predicts without raising, and
\* warns otherwise.
C7_AsClaimed ==
    /\ traced.kind = "traced" =>
        /\ traced.output_shape = <<1, model.classes>>
        /\ Printed(TraceReport(traced.output_shape, traced.sum)[1])
        /\ Printed(TraceReport(traced.output_shape, traced.sum)[2])
    /\ (pc = "done" /\ verified # "not run") =>
        /\ Printed(PASSED) <=> verified = "predicted"
        /\ Printed(VerificationWarning) <=> verified # "predicted"

-----------------------------------------------------------------------------
(* C8 *)

\* C8, as claimed: running one script leaves the package written by every
\* other script unchanged.
C8_AsClaimed ==
    [][\A p \in Paths :
            (disk[p] # NoFile /\ disk[p].written_by # script') =>
                disk'[p] = disk[p]]_vars

\* C8, amended: running one script leaves unchanged every package at a path
\* other than its own output path: the SigLIP AI-detector script and the two
\* deepfake scripts never touch each other's package.  The two deepfake
\* scripts share the output path DeepfakeDetector.mlpackage, so each replaces
\* the package the other wrote.
C8_OtherPathsUntouched ==
    [][\A p \in Paths :
            p # OutputPath(script') => disk'[p] = disk[p]]_vars

C8_Witness ==
    /\ runs = 2
    /\ script = XCEPTION
    /\ pc = "done"
    /\ disk["AIDetector.mlpackage"] # NoFile
    /\ disk["AIDetector.mlpackage"].written_by = SIGLIP
    /\ disk["DeepfakeDetector.mlpackage"] # NoFile
    /\ disk["DeepfakeDetector.mlpackage"].written_by = XCEPTION

-----------------------------------------------------------------------------
(* C9 *)

\* C9: download_pretrained_weights tries the candidate URLs in list order,
\* each at most once, and stops at the first URL whose weights load: no URL
\* is attempted after a success, the fallback warning is printed if and only
\* if the function has returned with every URL failed, and the function
\* always returns.
C9_UrlLoop ==
    /\ [](script = XCEPTION =>
            /\ Len(attempts) <= Len(weight_urls)
            /\ \A i \in DOMAIN attempts :
                /\ attempts[i].url = i
                /\ attempts[i].outcome = "loaded" => i = Len(attempts)
            /\ Printed(WARNING) <=> (AllFailed /\ InTrail("download"))
            /\ (InTrail("download") /\ ~AllFailed) =>
                attempts[Len(attempts)].outcome = "loaded")
    /\ (InWeights ~> ~InWeights)

C9_Witness ==
    /\ script = XCEPTION
    /\ pc = "wrap"
    /\ Len(weight_urls) = 2
    /\ Len(attempts) = 2
    /\ attempts[1].outcome = "unreadable"
    /\ attempts[2].outcome = "loaded"
    /\ ~Printed(WARNING)

-----------------------------------------------------------------------------
(* C10 *)

\* C10, as claimed: when download_pretrained_weights falls through after
\* every candidate URL has failed, the model it returns is the baseline
\* model exactly as it was passed in.
C10_AsClaimed ==
    (script = XCEPTION /\ InTrail("download") /\ AllFailed) => model = baseline
-----------------------------------------------------------------------------
(* C11 *)

FallbackNotice == "timm not available, using torchvision Inception as fallback"

\* C11: create_xceptionnet_model returns a model with exactly two output
\* classes on both of its paths: timm's xception when timm can be imported,
\* torchvision's InceptionV3 with its final layer replaced when importing
\* timm raises ImportError.  Only that ImportError leads to the fallback: a
\* failure of timm.create_model is not caught, and the run ends there with
\* exit status 1, no fallback and no model.
C11_TwoClassesOnBothPaths ==
    script = XCEPTION =>
        /\ model # NoModel =>
            /\ model.classes = 2
            /\ IF "timm" \in importable
               THEN model.arch = "xception" /\ ~Printed(FallbackNotice)
               ELSE model.arch = "inception_v3" /\ Printed(FallbackNotice)
        /\ traced.kind = "traced" => traced.output_shape = <<1, 2>>
        /\ Printed(FallbackNotice) => "timm" \notin importable
        /\ (\E i \in DOMAIN err : err[i] = "RuntimeError: timm.create_model") =>
            /\ "timm" \in importable
            /\ pc = "done"
            /\ exitStatus = 1
            /\ model = NoModel
            /\ trail = <<>>
            /\ ~Printed(FallbackNotice)

\* the fallback path was taken and its model went through the trace
C11_Witness ==
    /\ script = XCEPTION
    /\ "timm" \notin importable
    /\ model.kind = "model"
    /\ model.arch = "inception_v3"
    /\ traced.kind = "traced"
    /\ Printed(FallbackNotice)

-----------------------------------------------------------------------------
(* C12 *)

\* C12, as claimed: no temporary weight file that download_pretrained_weights
\* created is left on disk, neither between two URL attempts nor after the
\* function has returned, on the success path and on every failure path.
C12_AsClaimed ==
    script = XCEPTION => tmpfiles = {}
====
